---- MODULE Spec2Model ----
(***************************************************************************)
(* A state-machine model of src/app.py, the AWV reporting script: it       *)
(* downloads the trades of each account, filters them to the reporting     *)
(* month, converts them to thousands of EUR, groups partial fills by       *)
(* order, groups the orders by month and instrument, applies the           *)
(* reporting limit, assigns Belegart and Kennzahl and writes the CSV file. *)
(*                                                                         *)
(* A DataFrame is the set of its rows; every row carries the index `id`    *)
(* it got at the download, so equal-looking rows stay apart.  An aggregate *)
(* row carries `members`, the ids of the trades summed into it (a history  *)
(* field: the script has no such column).  A string cell is the tuple of   *)
(* its characters, so that ISIN[0:2] is computed; a missing cell is NaN.   *)
(* A float cell that may be missing is <<>> (NaN) or <<k>>.                *)
(*                                                                         *)
(* Amounts: fxRate is held in tenths (FxOne is the rate 1), so the column  *)
(* Betrag = Betrag NC * fxRate / 1000 is held as Betrag NC * fxRate, in    *)
(* units of 1/KiloEur thousand EUR.  The columns origTradePrice and Datum  *)
(* of df_g (a mean nothing reads) are left out.                            *)
(***************************************************************************)
EXTENDS Integers, Sequences, FiniteSets, TLC

\* ------------------------------------------------------------------ bounds
\* The most rows one account's response holds.
MaxTrades == 2
\* The most accounts the settings list.
MaxAccounts == 2

\* --------------------------------------------------------------- constants
\* fxRate's `return 1`, in tenths.
FxOne == 10
\* The 1000 of `Betrag NC * fxRate / 1000`.
Thousand == 1000
\* One thousand EUR in the units Betrag is held in.
KiloEur == FxOne * Thousand
\* `limit = 12.5`
DefaultLimit == (25 * KiloEur) \div 2
\* counterpartCountryCodeGermanStocks
counterpartCountryCodeGermanStocks == <<"I", "E">>

\* A missing cell of a string column, as pd.read_xml gives an empty attribute.
NaN == <<"NaN">>
\* A missing cell of a float column, and a Python name never assigned.
Missing == <<>>

optionExchanges ==
    ("AMEX" :> 821) @@ ("ASX" :> 821) @@ ("BATS" :> 821) @@ ("BELFOX" :> 821) @@
    ("BOX" :> 821) @@ ("CBOE" :> 821) @@ ("CBOE2" :> 821) @@ ("DTB" :> 831) @@
    ("CDE" :> 821) @@ ("EDGX" :> 821) @@ ("EMERALD" :> 821) @@ ("EUREX" :> 831) @@
    ("EUREXUK" :> 831) @@ ("FTA" :> 821) @@ ("GEMINI" :> 821) @@ ("HKFE" :> 821)

\* ----------------------------------------------------------------- helpers
Abs(x) == IF x < 0 THEN -x ELSE x

\* Python's s[0:2].
Prefix2(s) == SubSeq(s, 1, IF Len(s) < 2 THEN Len(s) ELSE 2)

\* Python's truth test `not a` of an argparse value: None, or a zero.
Not(a) == a = Missing \/ a[1] = 0

RECURSIVE SumOf(_, _)
\* The sum of column col over the rows S.
SumOf(S, col) ==
    IF S = {} THEN 0
    ELSE LET r == CHOOSE x \in S : TRUE IN r[col] + SumOf(S \ {r}, col)

RECURSIVE UnionOf(_)
UnionOf(S) ==
    IF S = {} THEN {}
    ELSE LET r == CHOOSE x \in S : TRUE IN r.members \cup UnionOf(S \ {r})

\* DataFrame.round() on a Betrag cell: numpy rounds half to even.  The
\* result is in whole thousands of EUR.
Round(x) ==
    LET a == Abs(x)
        q == a \div KiloEur
        r == a % KiloEur
        n == IF 2 * r > KiloEur THEN q + 1
             ELSE IF 2 * r < KiloEur THEN q
             ELSE IF q % 2 = 0 THEN q ELSE q + 1
    IN  IF x < 0 THEN -n ELSE n

\* datetime comparison a < b and a <= b of <<year, month, day>>.
DateLT(a, b) ==
    \/ a[1] < b[1]
    \/ a[1] = b[1] /\ a[2] < b[2]
    \/ a[1] = b[1] /\ a[2] = b[2] /\ a[3] < b[3]

DateLE(a, b) == a = b \/ DateLT(a, b)

VARIABLES
    args,          \* argparse: [limit, withoutLimit], each Missing or <<v>>
    now,           \* dt.datetime.now(): <<year, month>>
    feed,          \* what client.download gives for each account
    yahoo,         \* what yf.download gives for a date: Missing or <<close>>
    pc,            \* the statement the script is at
    i,             \* the account loop's index (from 1)
    limit,         \* Missing until set, then <<limit>>
    withoutLimit,  \* Missing while the name is unbound, else <<value>>
    period,        \* Missing until set, then <<year, month>>
    df, df_g, df_m,
    columns,       \* whether df has any column yet (pd.DataFrame() has none)
    dtypes,        \* dtype of the four numeric columns of df_m
    out,           \* the rows written to the CSV file
    error          \* the exception that ended the run, "" if none

vars == <<args, now, feed, yahoo, pc, i, limit, withoutLimit, period,
          df, df_g, df_m, columns, dtypes, out, error>>

\* ------------------------------------------------------------------ inputs
DE_ISIN == <<"D", "E", "0", "0", "0", "7">>
US_ISIN == <<"U", "S", "0", "3", "7", "8">>

\* One raw <Trade> row of the FlexQuery.
BaseTrade ==
    [currency |-> "EUR", assetCategory |-> "STK", description |-> "ACME",
     isin |-> DE_ISIN, ibOrderID |-> 1, tradeDate |-> <<2026, 10, 15>>,
     buySell |-> "SELL", quantity |-> -100, proceeds |-> 15000,
     putCall |-> NaN, listingExchange |-> "IBIS",
     transactionType |-> "ExchTrade"]

\* The sequences over S of length 1..n.
SeqsUpTo(S, n) == UNION {[1..k -> S] : k \in 1..n}

\* The responses of one account: a download error, a response pd.read_xml
\* cannot read (malformed, or without any Trade node), or some rows of Pool.
Responses(Pool, Failures) ==
    {[kind |-> f, rows |-> <<>>] : f \in Failures} \cup
    {[kind |-> "ok", rows |-> s] : s \in SeqsUpTo(Pool, MaxTrades)}

DatesOf(Pool) == {t.tradeDate : t \in Pool}

InitWith(Pool, Failures, NAccounts, Limits, WithoutLimits, Nows, Quotes) ==
    /\ args \in [limit : Limits, withoutLimit : WithoutLimits]
    /\ now \in Nows
    /\ feed \in UNION {[1..n -> Responses(Pool, Failures)] : n \in NAccounts}
    /\ yahoo \in [DatesOf(Pool) -> Quotes]
    /\ pc = "settings"
    /\ i = 1
    /\ limit = Missing
    /\ withoutLimit = Missing
    /\ period = Missing
    /\ df = {}
    /\ df_g = {}
    /\ df_m = {}
    /\ columns = FALSE
    /\ dtypes = [Belegart |-> "int64", Kennzahl |-> "float64",
                 Betrag |-> "float64", Stueckzahl |-> "int64"]
    /\ out = {}
    /\ error = ""

\* --------------------------------------------------------------- settings
\* `if (not args.limit): limit = 12.5 else: limit = args.limit`
LimitSetting(a) == IF Not(a) THEN <<DefaultLimit>> ELSE a

\* `if (not args.withoutLimit): withoutLimit = 0`, and no else branch.
WithoutLimitSetting(a) == IF Not(a) THEN <<0>> ELSE Missing

\* The reporting period: the month before the current one.
ReportingPeriod(n) ==
    IF n[2] = 1 THEN <<n[1] - 1, 12>> ELSE <<n[1], n[2] - 1>>

Settings ==
    /\ pc = "settings"
    /\ limit' = LimitSetting(args.limit)
    /\ withoutLimit' = WithoutLimitSetting(args.withoutLimit)
    /\ period' = ReportingPeriod(now)
    /\ pc' = "download"
    /\ UNCHANGED <<args, now, feed, yahoo, i, df, df_g, df_m, columns,
                   dtypes, out, error>>

\* --------------------------------------------------------------- download
\* The rows of account a's response, as rows of df.
RowsOf(a) ==
    {[currency |-> feed[a].rows[k].currency,
      assetCategory |-> feed[a].rows[k].assetCategory,
      description |-> feed[a].rows[k].description,
      isin |-> feed[a].rows[k].isin,
      ibOrderID |-> feed[a].rows[k].ibOrderID,
      tradeDate |-> feed[a].rows[k].tradeDate,
      buySell |-> feed[a].rows[k].buySell,
      quantity |-> feed[a].rows[k].quantity,
      proceeds |-> feed[a].rows[k].proceeds,
      putCall |-> feed[a].rows[k].putCall,
      listingExchange |-> feed[a].rows[k].listingExchange,
      transactionType |-> feed[a].rows[k].transactionType,
      Account |-> a,
      id |-> <<a, k>>] : k \in 1..Len(feed[a].rows)}

\* One pass of `for i in range(len(accounts))`.  A download error is caught
\* and printed; a response that cannot be read reaches exit(), whose
\* SystemExit the outer `except Exception` does not catch.
Download ==
    /\ pc = "download"
    /\ IF feed[i].kind = "unreadable"
       THEN /\ pc' = "aborted"
            /\ error' = "SystemExit"
            /\ UNCHANGED <<df, columns, i>>
       ELSE /\ df' = IF feed[i].kind = "ok" THEN df \cup RowsOf(i) ELSE df
            /\ columns' = (columns \/ feed[i].kind = "ok")
            /\ i' = i + 1
            /\ pc' = IF i = Len(feed) THEN "removeCancelled" ELSE "download"
            /\ UNCHANGED error
    /\ UNCHANGED <<args, now, feed, yahoo, limit, withoutLimit, period,
                   df_g, df_m, dtypes, out>>

\* `df = df.loc[df['transactionType']!='TradeCancel']`: a KeyError when no
\* account gave any row, as pd.DataFrame() has no column.
NotCancelled(r) == r.transactionType # "TradeCancel"

RemoveCancelled ==
    /\ pc = "removeCancelled"
    /\ IF columns
       THEN /\ df' = {r \in df : NotCancelled(r)}
            /\ pc' = "selectColumns"
            /\ UNCHANGED error
       ELSE /\ pc' = "aborted"
            /\ error' = "KeyError"
            /\ UNCHANGED df
    /\ UNCHANGED <<args, now, feed, yahoo, i, limit, withoutLimit, period,
                   df_g, df_m, columns, dtypes, out>>

\* `df = df[neededCols]` and `df.rename(columns=renameCols)`.
Renamed(r) ==
    [Waehrung |-> r.currency, assetCategory |-> r.assetCategory,
     Zahlungszweck |-> r.description, ISIN |-> r.isin,
     orderID |-> r.ibOrderID, Datum |-> r.tradeDate,
     Transaktion |-> r.buySell, Stueckzahl |-> r.quantity,
     BetragNC |-> r.proceeds, putCall |-> r.putCall,
     listingExchange |-> r.listingExchange, id |-> r.id]

SelectColumns ==
    /\ pc = "selectColumns"
    /\ df' = {Renamed(r) : r \in df}
    /\ pc' = "dateFilter"
    /\ UNCHANGED <<args, now, feed, yahoo, i, limit, withoutLimit, period,
                   df_g, df_m, columns, dtypes, out, error>>

\* ------------------------------------------------------------- date filter
startDate(p) == <<p[1], p[2], 1>>

endDate(p) == IF p[2] = 12 THEN <<p[1] + 1, 1, 1>> ELSE <<p[1], p[2] + 1, 1>>

\* InPeriod with the end of the period compared by <= instead of <.
InPeriodClosed(d, p) == DateLE(startDate(p), d) /\ DateLE(d, endDate(p))

\* `df.loc[df['Datum']>= startDate]` then `df.loc[df['Datum']< endDate]`
InPeriod(d, p) == DateLE(startDate(p), d) /\ DateLT(d, endDate(p))

DateFilter ==
    /\ pc = "dateFilter"
    /\ df' = {r \in df : InPeriod(r.Datum, period)}
    /\ pc' = "cashFilter"
    /\ UNCHANGED <<args, now, feed, yahoo, i, limit, withoutLimit, period,
                   df_g, df_m, columns, dtypes, out, error>>

\* `df = df.loc[df['assetCategory']!='CASH']`
NotCash(r) == r.assetCategory # "CASH"

CashFilter ==
    /\ pc = "cashFilter"
    /\ df' = {r \in df : NotCash(r)}
    /\ pc' = "addFx"
    /\ UNCHANGED <<args, now, feed, yahoo, i, limit, withoutLimit, period,
                   df_g, df_m, columns, dtypes, out, error>>

\* ------------------------------------------------------------------ enrich
\* fxRate(currency, date): 1 for EUR, else the day's close of the currency's
\* EUR ticker, and 0 when the download or the read of its first row raises.
\* The trades are in EUR or USD, so yahoo holds the one ticker USDEUR=X.
fxRate(currency, date) ==
    IF currency = "EUR" THEN FxOne
    ELSE IF yahoo[date] = Missing THEN 0 ELSE yahoo[date][1]

\* The four `df.loc[df['Transaktion']==..., 'Transaktion'] = ...` lines.
Translate(t) ==
    IF t \in {"BUY", "BUY (Ca.)"} THEN "Kauf"
    ELSE IF t \in {"SELL", "SELL (Ca.)"} THEN "Verkauf"
    ELSE t

\* fillna left out: the cell stays as it is.
fillnaSkipped(x) == x

\* `.fillna('')` on one cell.
fillna(x) == IF x = NaN THEN <<>> ELSE x

Enriched(r) ==
    [Waehrung |-> r.Waehrung, assetCategory |-> r.assetCategory,
     Zahlungszweck |-> r.Zahlungszweck, ISIN |-> fillna(r.ISIN),
     orderID |-> r.orderID, Datum |-> r.Datum,
     Transaktion |-> Translate(r.Transaktion), Stueckzahl |-> r.Stueckzahl,
     BetragNC |-> r.BetragNC, putCall |-> fillna(r.putCall),
     listingExchange |-> r.listingExchange, id |-> r.id,
     fxRate |-> fxRate(r.Waehrung, r.Datum),
     Betrag |-> r.BetragNC * fxRate(r.Waehrung, r.Datum)]

Enrich ==
    /\ pc = "addFx"
    /\ df' = {Enriched(r) : r \in df}
    /\ pc' = "groupOrders"
    /\ UNCHANGED <<args, now, feed, yahoo, i, limit, withoutLimit, period,
                   df_g, df_m, columns, dtypes, out, error>>

\* --------------------------------------------------------- order grouping
\* groupby leaves out every row with a NaN in a key column (dropna=True).
InGrouping(r) == r.ISIN # NaN /\ r.putCall # NaN

OrderKey(r) ==
    <<r.orderID, r.Waehrung, r.Zahlungszweck, r.ISIN, r.Transaktion,
      r.putCall, r.listingExchange>>

\* `x['ISIN'][0:2]`, with 'DE' replaced by the broker's country.
Laenderschluessel(isin) ==
    IF Prefix2(isin) = <<"D", "E">> THEN counterpartCountryCodeGermanStocks
    ELSE Prefix2(isin)

\* The row of df_g for the group G of rows of df.
OrderRow(G) ==
    LET r == CHOOSE x \in G : TRUE
    IN  [orderID |-> r.orderID, Waehrung |-> r.Waehrung,
         Zahlungszweck |-> r.Zahlungszweck, ISIN |-> r.ISIN,
         Transaktion |-> r.Transaktion, putCall |-> r.putCall,
         listingExchange |-> r.listingExchange,
         Stueckzahl |-> SumOf(G, "Stueckzahl"), Betrag |-> SumOf(G, "Betrag"),
         Laenderschluessel |-> Laenderschluessel(r.ISIN),
         members |-> {x.id : x \in G}]

GroupByOrder(D) ==
    {OrderRow({s \in D : InGrouping(s) /\ OrderKey(s) = OrderKey(r)}) :
        r \in {x \in D : InGrouping(x)}}

GroupOrders ==
    /\ pc = "groupOrders"
    /\ df_g' = GroupByOrder(df)
    /\ pc' = "groupMonth"
    /\ UNCHANGED <<args, now, feed, yahoo, i, limit, withoutLimit, period,
                   df, df_m, columns, dtypes, out, error>>

\* --------------------------------------------------------- month grouping
MonthKey(r) ==
    <<r.Waehrung, r.Zahlungszweck, r.Laenderschluessel, r.ISIN, r.putCall,
      r.listingExchange, r.Transaktion>>

\* The row of df_m for the group G of rows of df_g.
MonthRow(G) ==
    LET r == CHOOSE x \in G : TRUE
    IN  [Waehrung |-> r.Waehrung, Zahlungszweck |-> r.Zahlungszweck,
         Laenderschluessel |-> r.Laenderschluessel, ISIN |-> r.ISIN,
         putCall |-> r.putCall, listingExchange |-> r.listingExchange,
         Transaktion |-> r.Transaktion,
         Stueckzahl |-> SumOf(G, "Stueckzahl"), Betrag |-> SumOf(G, "Betrag"),
         members |-> UnionOf(G)]

GroupByMonth(D) ==
    {MonthRow({s \in D : MonthKey(s) = MonthKey(r)}) : r \in D}

GroupMonth ==
    /\ pc = "groupMonth"
    /\ df_m' = GroupByMonth(df_g)
    /\ pc' = "limitFilter"
    /\ UNCHANGED <<args, now, feed, yahoo, i, limit, withoutLimit, period,
                   df, df_g, columns, dtypes, out, error>>

\* ------------------------------------------------------------ limit filter
\* AboveLimit with > instead of >=.
AboveLimitStrict(r, l) == Abs(r.Betrag) > l

\* `abs(df_m['Betrag']) >= limit`, both sides in Betrag's units.
AboveLimit(r, l) == Abs(r.Betrag) >= l

\* `if withoutLimit < 1:` raises NameError when the name was never bound.
LimitFilter ==
    /\ pc = "limitFilter"
    /\ IF withoutLimit = Missing
       THEN /\ pc' = "aborted"
            /\ error' = "NameError"
            /\ UNCHANGED df_m
       ELSE /\ df_m' = IF withoutLimit[1] < 1
                       THEN {r \in df_m : AboveLimit(r, limit[1])}
                       ELSE df_m
            /\ pc' = "assignOptions"
            /\ UNCHANGED error
    /\ UNCHANGED <<args, now, feed, yahoo, i, limit, withoutLimit, period,
                   df, df_g, columns, dtypes, out>>

\* ---------------------------------------------------------- classification
\* `df_m['Belegart']=3`, then 4 where Transaktion is 'Kauf'.
Belegart(r) == IF r.Transaktion = "Kauf" THEN 4 ELSE 3

IsOption(r) == r.putCall # <<>>

\* The lambda of the option line raises KeyError on an exchange that
\* optionExchanges does not list; the assignment then never happens, for any
\* row, and the except branch prints the error.
LookupFails(D) ==
    \E r \in D : IsOption(r) /\ r.listingExchange \notin DOMAIN optionExchanges

\* The Kennzahl cell of row r of D after the first try block.
OptionKennzahl(r, D) ==
    IF IsOption(r) /\ ~LookupFails(D)
    THEN <<optionExchanges[r.listingExchange]>>
    ELSE Missing

AssignOptions ==
    /\ pc = "assignOptions"
    /\ df_m' = {[Waehrung |-> r.Waehrung, Zahlungszweck |-> r.Zahlungszweck,
                 Laenderschluessel |-> r.Laenderschluessel, ISIN |-> r.ISIN,
                 putCall |-> r.putCall, listingExchange |-> r.listingExchange,
                 Transaktion |-> r.Transaktion, Stueckzahl |-> r.Stueckzahl,
                 Betrag |-> r.Betrag, members |-> r.members,
                 Belegart |-> Belegart(r),
                 Kennzahl |-> OptionKennzahl(r, df_m)] : r \in df_m}
    /\ pc' = "assignEquity"
    /\ UNCHANGED <<args, now, feed, yahoo, i, limit, withoutLimit, period,
                   df, df_g, columns, dtypes, out, error>>

\* EquityKennzahl with the two assignments swapped and the foreign one
\* testing only that ISIN[0:2] is not ''.
EquityKennzahlForeignLast(r) ==
    LET p == Prefix2(r.ISIN)
        first == IF p = <<"D", "E">> THEN <<258>> ELSE r.Kennzahl
    IN  IF p # <<>> THEN <<104>> ELSE first

\* The two Kennzahl assignments of the second try block, in their order:
\* 104 on every row whose ISIN[0:2] is neither 'DE' nor '', then 258 on
\* every row whose ISIN[0:2] is 'DE'.  Neither looks at putCall or at the
\* Kennzahl the row has.
EquityKennzahl(r) ==
    LET p == Prefix2(r.ISIN)
        first == IF p # <<"D", "E">> /\ p # <<>> THEN <<104>> ELSE r.Kennzahl
    IN  IF p = <<"D", "E">> THEN <<258>> ELSE first

AssignEquity ==
    /\ pc = "assignEquity"
    /\ df_m' = {[r EXCEPT !.Kennzahl = EquityKennzahl(r),
                          !.Stueckzahl = Abs(r.Stueckzahl)] : r \in df_m}
    /\ pc' = "reorder"
    /\ UNCHANGED <<args, now, feed, yahoo, i, limit, withoutLimit, period,
                   df, df_g, columns, dtypes, out, error>>

\* ----------------------------------------------------------------- format
\* The column selection and `df_m.round()`.
Formatted(r) ==
    [Belegart |-> r.Belegart, Kennzahl |-> r.Kennzahl,
     Zahlungszweck |-> r.Zahlungszweck,
     Laenderschluessel |-> r.Laenderschluessel, Betrag |-> Round(r.Betrag),
     ISIN |-> r.ISIN, Stueckzahl |-> r.Stueckzahl, Waehrung |-> r.Waehrung,
     members |-> r.members]

ReorderRound ==
    /\ pc = "reorder"
    /\ df_m' = {Formatted(r) : r \in df_m}
    /\ pc' = "castInt"
    /\ UNCHANGED <<args, now, feed, yahoo, i, limit, withoutLimit, period,
                   df, df_g, columns, dtypes, out, error>>

\* `df_m[intCol].astype("int")` converts the four columns in one call, and
\* raises when a cell is NaN; the except branch prints, and no column is
\* converted.
CastDtypes(D, t) ==
    IF \E r \in D : r.Kennzahl = Missing
    THEN t
    ELSE [Belegart |-> "int64", Kennzahl |-> "int64", Betrag |-> "int64",
          Stueckzahl |-> "int64"]

CastInt ==
    /\ pc = "castInt"
    /\ dtypes' = CastDtypes(df_m, dtypes)
    /\ pc' = "abs"
    /\ UNCHANGED <<args, now, feed, yahoo, i, limit, withoutLimit, period,
                   df, df_g, df_m, columns, out, error>>

AbsRow(r) == [r EXCEPT !.Betrag = Abs(r.Betrag), !.Stueckzahl = Abs(r.Stueckzahl)]

AbsValues ==
    /\ pc = "abs"
    /\ df_g' = {AbsRow(r) : r \in df_g}
    /\ df_m' = {AbsRow(r) : r \in df_m}
    /\ pc' = "export"
    /\ UNCHANGED <<args, now, feed, yahoo, i, limit, withoutLimit, period,
                   df, columns, dtypes, out, error>>

\* `df_m.to_csv(...)`; the sort of df_g after it changes no row.
Export ==
    /\ pc = "export"
    /\ out' = df_m
    /\ pc' = "done"
    /\ UNCHANGED <<args, now, feed, yahoo, i, limit, withoutLimit, period,
                   df, df_g, df_m, columns, dtypes, error>>

Next ==
    \/ Settings
    \/ Download
    \/ RemoveCancelled
    \/ SelectColumns
    \/ DateFilter
    \/ CashFilter
    \/ Enrich
    \/ GroupOrders
    \/ GroupMonth
    \/ LimitFilter
    \/ AssignOptions
    \/ AssignEquity
    \/ ReorderRound
    \/ CastInt
    \/ AbsValues
    \/ Export

\* ---------------------------------------------------------- specifications
SELL_Row == BaseTrade
BUY_Row == [BaseTrade EXCEPT !.buySell = "BUY", !.quantity = 100, !.proceeds = -15000]

\* The default settings: no --limit and no --withoutLimit, run in November
\* 2026, one account, every download read, a close of 0.9 for each day.
NoArg == {Missing}
November == {<<2026, 11>>}
OneAccount == {1}
AnyClose == {<<9>>}

\* Fetch outcomes: one to MaxAccounts accounts, each failing to download,
\* giving an unreadable response, or giving rows.  The script's `accounts`
\* lists one account; its loop is written for a list of any length.
FetchPool == {SELL_Row, BUY_Row}

Init ==
    InitWith(FetchPool, {"downloadError", "unreadable"}, 1..MaxAccounts,
             NoArg, NoArg, November, AnyClose)

Spec == Init /\ [][Next]_vars

\* Classification: equities and options, on listed and unlisted exchanges,
\* with a German, a foreign and no ISIN, bought and sold.
ClassifyPool ==
    {[t EXCEPT !.isin = is, !.putCall = v[1], !.listingExchange = v[2],
               !.assetCategory = v[3]] :
        t \in {SELL_Row, BUY_Row},
        is \in {NaN, DE_ISIN, US_ISIN},
        v \in {<<NaN, "IBIS", "STK">>, <<<<"P">>, "EUREX", "OPT">>,
               <<<<"P">>, "CBOE", "OPT">>, <<<<"P">>, "IBIS", "OPT">>}}

InitClassify ==
    InitWith(ClassifyPool, {}, OneAccount, NoArg, NoArg, November, AnyClose)

SpecClassify == InitClassify /\ [][Next]_vars

\* Reporting period: trades, cancellations and cash movements around the
\* edges of October and December 2026, run in November and in January.
PeriodPool ==
    {[BaseTrade EXCEPT !.tradeDate = d, !.transactionType = v[1],
                       !.assetCategory = v[2]] :
        d \in {<<2026, 9, 30>>, <<2026, 10, 1>>, <<2026, 10, 31>>,
               <<2026, 11, 1>>, <<2026, 12, 31>>, <<2027, 1, 1>>},
        v \in {<<"ExchTrade", "STK">>, <<"TradeCancel", "STK">>,
               <<"ExchTrade", "CASH">>}}

InitPeriod ==
    InitWith(PeriodPool, {}, OneAccount, NoArg, NoArg,
             {<<2026, 11>>, <<2027, 1>>}, AnyClose)

SpecPeriod == InitPeriod /\ [][Next]_vars

\* Reporting limit: fills of two orders below, at and above the limit, with
\* --limit absent, 0 and 10, and --withoutLimit absent, 0 and 1.
LimitPool ==
    {[BaseTrade EXCEPT !.ibOrderID = o, !.buySell = v[1], !.proceeds = v[2],
                       !.quantity = v[3]] :
        o \in {1, 2},
        v \in {<<"SELL", 5000, -50>>, <<"SELL", 7500, -75>>,
               <<"BUY", -12500, 125>>, <<"BUY", -5000, 50>>}}

InitLimit ==
    InitWith(LimitPool, {}, OneAccount, {Missing, <<0>>, <<10 * KiloEur>>},
             {Missing, <<0>>, <<1>>}, November, AnyClose)

SpecLimit == InitLimit /\ [][Next]_vars

\* Order aggregation: fills of two orders in EUR and USD, with and without
\* ISIN and putCall, the day's close found or not.
OrderPool ==
    {[BaseTrade EXCEPT !.ibOrderID = o, !.isin = is, !.putCall = p,
                       !.currency = c, !.listingExchange = "CBOE"] :
        o \in {1, 2}, is \in {NaN, US_ISIN}, p \in {NaN, <<"C">>},
        c \in {"EUR", "USD"}}

InitOrder ==
    InitWith(OrderPool, {}, OneAccount, NoArg, NoArg, November,
             {Missing, <<9>>})

SpecOrder == InitOrder /\ [][Next]_vars

\* ------------------------------------------------------------------ claims
\* The raw trade with index id, as the account's response held it.
RawOf(id) == feed[id[1]].rows[id[2]]

\* The raw trades summed into the aggregate r.
RawMembers(r) == {RawOf(id) : id \in r.members}

\* The aggregate r is of option trades: their putCall is not missing.
OptionAggregate(r) == \E t \in RawMembers(r) : t.putCall # NaN

\* The raw ISIN s starts with "DE"; it has another, non-empty start.
GermanIsin(s) == s # NaN /\ Len(s) >= 2 /\ s[1] = "D" /\ s[2] = "E"
ForeignIsin(s) == s # NaN /\ Len(s) >= 1 /\ ~GermanIsin(s)

\* df_m holds its Kennzahl column in its final state.
Classified == pc \in {"reorder", "castInt", "abs", "export", "done"}

\* The monthly aggregates that are classified, and the records written.
Reported == (IF Classified THEN df_m ELSE {}) \cup out

\* Every option trade of the feed is on an exchange optionExchanges lists.
AllVenuesListed ==
    \A a \in 1..Len(feed) : \A k \in 1..Len(feed[a].rows) :
        feed[a].rows[k].putCall # NaN
            => feed[a].rows[k].listingExchange \in DOMAIN optionExchanges

\* C1: every record written for an aggregate with a non-empty putCall has
\* the Kennzahl optionExchanges gives for its listing exchange, whatever its
\* ISIN is (stated for the runs in which every option venue is listed).
C1_OptionKennzahlFromVenue ==
    (pc = "done" /\ AllVenuesListed) =>
        \A r \in out : \A t \in RawMembers(r) :
            t.putCall # NaN => r.Kennzahl = <<optionExchanges[t.listingExchange]>>

\* C2: every classified aggregate and every record with an empty putCall
\* has Kennzahl 258 when its ISIN starts with "DE", and Kennzahl 104 when
\* its ISIN starts with something else.
C2_EquityKennzahl ==
    \A r \in Reported : \A t \in RawMembers(r) :
        t.putCall = NaN =>
            /\ GermanIsin(t.isin) => r.Kennzahl = <<258>>
            /\ ForeignIsin(t.isin) => r.Kennzahl = <<104>>

\* A file was written with a German and a foreign equity record.
C2_Witness ==
    /\ pc = "done"
    /\ \E r \in out : ~OptionAggregate(r) /\ r.Kennzahl = <<258>>
                      /\ \E t \in RawMembers(r) : GermanIsin(t.isin)
    /\ \E r \in out : ~OptionAggregate(r) /\ r.Kennzahl = <<104>>
                      /\ \E t \in RawMembers(r) : ForeignIsin(t.isin)

\* C3: in every record written, Belegart, Kennzahl, Betrag and Stueckzahl
\* are integers (so Kennzahl is set), and Betrag and Stueckzahl are not
\* negative.
C3_RecordsAreIntegers ==
    pc = "done" =>
        \A r \in out :
            /\ r.Kennzahl # Missing
            /\ \A c \in {"Belegart", "Kennzahl", "Betrag", "Stueckzahl"} :
                   dtypes[c] = "int64"
            /\ r.Betrag >= 0
            /\ r.Stueckzahl >= 0

\* The rows of df that share the month-level key of t: currency,
\* description, ISIN (and so the country), putCall, exchange and side.
MonthClass(t) ==
    {u \in df : /\ u.Waehrung = t.Waehrung
                /\ u.Zahlungszweck = t.Zahlungszweck
                /\ u.ISIN = t.ISIN
                /\ u.putCall = t.putCall
                /\ u.listingExchange = t.listingExchange
                /\ u.Transaktion = t.Transaktion}

Ids(S) == {t.id : t \in S}

\* The unrounded amount of the trades with the given ids.
AmountOf(ids) == SumOf({t \in df : t.id \in ids}, "Betrag")

\* The limit is enforced: withoutLimit is bound and below 1.
Enforced == withoutLimit # Missing /\ withoutLimit[1] < 1

\* Every group of trades sharing a month-level key has a record of its own.
AllMonthClassesReported ==
    \A t \in df : \E r \in out : r.members = Ids(MonthClass(t))

\* C4: with the limit enforced, no record written sums to less than the
\* limit in absolute amount, and every month-level group of trades whose
\* summed absolute amount is at least the limit has its record, also when
\* each of its trades is below the limit.
C4_MonthlySumDecides ==
    (pc = "done" /\ Enforced) =>
        /\ \A r \in out : Abs(AmountOf(r.members)) >= limit[1]
        /\ \A t \in df :
               Abs(AmountOf(Ids(MonthClass(t)))) >= limit[1]
                   => \E r \in out : r.members = Ids(MonthClass(t))

\* A record of two trades, each below the limit and together exactly at
\* it, was written.
C4_Witness ==
    /\ pc = "done"
    /\ Enforced
    /\ \E r \in out :
           /\ Cardinality(r.members) >= 2
           /\ \A id \in r.members : Abs(AmountOf({id})) < limit[1]
           /\ Abs(AmountOf(r.members)) = limit[1]

\* C5: when --withoutLimit 1 is given the run completes, and every
\* month-level group of trades has its record.
C5_WithoutLimitCompletes ==
    (args.withoutLimit = <<1>> /\ pc \in {"aborted", "done"}) =>
        pc = "done" /\ AllMonthClassesReported

\* The aggregate r is of option trades on an exchange optionExchanges does
\* not list.
UnlistedOption(r) ==
    \E t \in RawMembers(r) :
        t.putCall # NaN /\ t.listingExchange \notin DOMAIN optionExchanges

\* C6: no record of an option aggregate on an unlisted exchange is written
\* without a Kennzahl (the run aborts instead, or classifies the row).
C6_NoUnclassifiedOptionWritten ==
    pc = "done" => \A r \in out : UnlistedOption(r) => r.Kennzahl # Missing

\* The accounts whose fetch has failed so far.
FailedFetches ==
    {a \in 1..Len(feed) :
        (a < i \/ (a = i /\ error = "SystemExit")) /\ feed[a].kind # "ok"}

\* C7: a failed fetch never aborts the run.
C7_FailedFetchNeverAborts == FailedFetches # {} => pc # "aborted"

\* The months since year 0 of a <<year, month, ...>>.
MonthIndex(d) == 12 * d[1] + d[2]

\* The order aggregates, monthly aggregates and records there are.
Aggregates == df_g \cup df_m \cup out

\* C8: every trade summed into an order aggregate, a monthly aggregate or a
\* record is no cancellation and no cash movement, and its date lies in the
\* month before the current one.
C8_OnlyReportableTradesContribute ==
    \A r \in Aggregates : \A t \in RawMembers(r) :
        /\ t.transactionType # "TradeCancel"
        /\ t.assetCategory # "CASH"
        /\ MonthIndex(t.tradeDate) = MonthIndex(now) - 1

\* A January run wrote a record for December although the feed held a
\* cancellation dated in December and a trade dated the first of January.
C8_Witness ==
    /\ pc = "done"
    /\ now[2] = 1
    /\ out # {}
    /\ \E a \in 1..Len(feed) : \E k \in 1..Len(feed[a].rows) :
           \/ /\ feed[a].rows[k].transactionType = "TradeCancel"
              /\ MonthIndex(feed[a].rows[k].tradeDate) = MonthIndex(now) - 1
           \/ /\ feed[a].rows[k].transactionType # "TradeCancel"
              /\ feed[a].rows[k].tradeDate = <<now[1], 1, 1>>

\* C9: the limit in force is --limit whenever it is given, 0 included, and
\* 12.5 only when it is not given.
C9_ConfiguredLimitUsed ==
    pc # "settings" =>
        limit = IF args.limit = Missing THEN <<DefaultLimit>> ELSE args.limit

\* df_g is built and not yet made positive for display.
OrdersGrouped ==
    pc \in {"groupMonth", "limitFilter", "assignOptions", "assignEquity",
            "reorder", "castInt", "abs"}

\* a and t agree on the order-level key.
SameOrderKey(a, t) ==
    /\ a.orderID = t.orderID
    /\ a.Waehrung = t.Waehrung
    /\ a.Zahlungszweck = t.Zahlungszweck
    /\ a.ISIN = t.ISIN
    /\ a.Transaktion = t.Transaktion
    /\ a.putCall = t.putCall
    /\ a.listingExchange = t.listingExchange

\* C10: for every order, quantity and amount summed over its order
\* aggregates equal those summed over its trades; every trade, also one
\* whose ISIN or putCall was missing, is in exactly one order aggregate,
\* the one of its key, and every order aggregate has a trade of its key.
C10_OrderAggregationConserves ==
    OrdersGrouped =>
        /\ \A o \in {t.orderID : t \in df} :
               /\ SumOf({a \in df_g : a.orderID = o}, "Stueckzahl")
                      = SumOf({t \in df : t.orderID = o}, "Stueckzahl")
               /\ SumOf({a \in df_g : a.orderID = o}, "Betrag")
                      = SumOf({t \in df : t.orderID = o}, "Betrag")
        /\ \A t \in df :
               /\ Cardinality({a \in df_g : SameOrderKey(a, t)}) = 1
               /\ \E a \in df_g : SameOrderKey(a, t) /\ t.id \in a.members
        /\ \A a \in df_g : \E t \in df : SameOrderKey(a, t)

\* Two fills of one order whose ISIN and putCall were missing are one order
\* aggregate, beside which there is none.
C10_Witness ==
    /\ pc = "groupMonth"
    /\ \E a \in df_g :
           /\ Cardinality(a.members) = 2
           /\ \A t \in RawMembers(a) : t.isin = NaN /\ t.putCall = NaN
           /\ a.Betrag # 0

====
